---- MODULE Spec2Model ----
(***************************************************************************)
(* Polynomial addition and multiplication gadgets of verifiableFHE:        *)
(* src/src/gadgets/add.rs, src/src/gadgets/mul.rs, src/src/params.rs.      *)
(*                                                                         *)
(* Program integers are u32, u64 and u128 quantities and Mersenne31 field  *)
(* elements.  They are kept at their true width: a number is the sequence  *)
(* of its base-10000 digits, least significant first, with no leading zero *)
(* digit (zero is <<>>), so 1085276161 is <<6161, 8527, 10>>.              *)
(***************************************************************************)
EXTENDS Integers, Sequences, FiniteSets, TLC

(***************************************************************************)
(* Bounds and program constants                                            *)
(***************************************************************************)
\* number of coefficients of a polynomial (params.rs sets 3500)
N == 3

\* largest exponent for which mod_exp is compared with repeated multiplication
MaxExp == 5

P1 == 1085276161
P2 == 1092616193
P3 == 1095761921

\* characteristic of the native field Val = Mersenne31, 2^31 - 1
ORDER == 2147483647

(***************************************************************************)
(* Unbounded naturals                                                      *)
(***************************************************************************)
Base == 100 * 100

RECURSIVE ToNum(_)
ToNum(n) == IF n = 0 THEN <<>> ELSE <<n % Base>> \o ToNum(n \div Base)

Small(x) == Len(x) <= 2
ToInt(x) == IF Len(x) = 0 THEN 0 ELSE IF Len(x) = 1 THEN x[1] ELSE x[1] + Base * x[2]

RECURSIVE Strip(_)
Strip(x) == IF Len(x) = 0 \/ x[Len(x)] # 0 THEN x ELSE Strip(SubSeq(x, 1, Len(x) - 1))

RECURSIVE AddC(_, _, _)
AddC(x, y, c) ==
    IF Len(x) = 0 /\ Len(y) = 0 THEN (IF c = 0 THEN <<>> ELSE <<c>>)
    ELSE IF Len(y) = 0 /\ c = 0 THEN x
    ELSE IF Len(x) = 0 /\ c = 0 THEN y
    ELSE LET s == (IF Len(x) = 0 THEN 0 ELSE x[1]) + (IF Len(y) = 0 THEN 0 ELSE y[1]) + c
         IN <<s % Base>> \o AddC(IF Len(x) = 0 THEN x ELSE Tail(x),
                                 IF Len(y) = 0 THEN y ELSE Tail(y), s \div Base)
Add(x, y) == AddC(x, y, 0)

RECURSIVE LessFrom(_, _, _)
LessFrom(x, y, i) ==
    IF i = 0 THEN FALSE
    ELSE IF x[i] # y[i] THEN x[i] < y[i]
    ELSE LessFrom(x, y, i - 1)
Less(x, y) == IF Len(x) # Len(y) THEN Len(x) < Len(y) ELSE LessFrom(x, y, Len(x))
Leq(x, y) == ~Less(y, x)

\* x - y for y <= x
RECURSIVE SubB(_, _, _)
SubB(x, y, b) ==
    IF Len(y) = 0 /\ b = 0 THEN x
    ELSE LET d == x[1] - (IF Len(y) = 0 THEN 0 ELSE y[1]) - b
         IN <<IF d < 0 THEN d + Base ELSE d>>
              \o SubB(Tail(x), IF Len(y) = 0 THEN y ELSE Tail(y), IF d < 0 THEN 1 ELSE 0)
Sub(x, y) == Strip(SubB(x, y, 0))

\* x * d + c for one digit d
RECURSIVE MulLimb(_, _, _)
MulLimb(x, d, c) ==
    IF Len(x) = 0 THEN (IF c = 0 THEN <<>> ELSE ToNum(c))
    ELSE LET p == x[1] * d + c
         IN <<p % Base>> \o MulLimb(Tail(x), d, p \div Base)

RECURSIVE MulBig(_, _)
MulBig(x, y) ==
    IF Len(x) = 0 \/ Len(y) = 0 THEN <<>>
    ELSE LET rest == MulBig(x, Tail(y))
         IN Add(IF y[1] = 0 THEN <<>> ELSE MulLimb(x, y[1], 0),
                IF Len(rest) = 0 THEN <<>> ELSE <<0>> \o rest)
Mul(x, y) == IF Len(x) <= 1 /\ Len(y) <= 1 THEN ToNum(ToInt(x) * ToInt(y)) ELSE MulBig(x, y)

Odd(x) == Len(x) > 0 /\ x[1] % 2 = 1
\* x \div 2 (Base is even: an odd digit hands Base \div 2 down to the digit below it)
Half(x) == Strip([i \in 1..Len(x) |->
              (x[i] \div 2) + (IF i < Len(x) /\ x[i + 1] % 2 = 1 THEN Base \div 2 ELSE 0)])

\* t mod m for t < m * 2^k: subtract m * 2^(k-1), ..., m * 2, m where they fit
RECURSIVE Reduce(_, _, _)
Reduce(t, m, k) ==
    IF k = 0 \/ Len(t) = 0 THEN t
    ELSE LET mk == MulLimb(m, 2 ^ (k - 1), 0)
         IN Reduce(IF Less(t, mk) THEN t ELSE Sub(t, mk), m, k - 1)

\* x mod m for m > 0, digit by digit from the most significant (Base < 2^14)
RECURSIVE ModBig(_, _)
ModBig(x, m) ==
    IF Less(x, m) THEN x
    ELSE LET r == ModBig(Tail(x), m)
         IN Reduce(IF Len(r) = 0 /\ x[1] = 0 THEN <<>> ELSE <<x[1]>> \o r, m, 14)
Mod(x, m) == IF Small(x) /\ Small(m) THEN ToNum(ToInt(x) % ToInt(m)) ELSE ModBig(x, m)

Zero == <<>>
One == <<1>>
TwoPow32 == Mul(ToNum(65536), ToNum(65536))
TwoPow64 == Mul(TwoPow32, TwoPow32)
TwoPow128 == Mul(TwoPow64, TwoPow64)
U32Max == Sub(TwoPow32, One)
U64Max == Sub(TwoPow64, One)

\* the largest element of a non-empty finite set of numbers
MaxOf(S) == CHOOSE x \in S : \A y \in S : Leq(y, x)

(***************************************************************************)
(* The native field Val = Mersenne31 (config.rs), an element being its     *)
(* canonical representative in [0, ORDER)                                  *)
(***************************************************************************)
FieldOrder == ToNum(ORDER)
FieldZero == Zero
FieldAdd(x, y) == Mod(Add(x, y), FieldOrder)
FieldMul(x, y) == Mod(Mul(x, y), FieldOrder)
\* the field element an integer denotes; the integer is canonical when < ORDER
FromCanonicalU32(n) == Mod(n, FieldOrder)
FromCanonicalU64(n) == Mod(n, FieldOrder)

(***************************************************************************)
(* State                                                                   *)
(***************************************************************************)
VARIABLES
    air,        \* the instance: PolyAddAir / PolyMulAir {a, b, modulus}
    gadget,     \* "add" or "mul": which gadget the run builds and proves
    trace,      \* the RowMajorMatrix, [values, width], once it is generated
    pc,         \* "new", "traced", "verified", or "panic"
    forged,     \* whether the prover replaced a cell of the generated table
    accepted,   \* prove followed by verify: every registered constraint holds
    overflowed, \* a u32 / u64 operation exceeded its width
    converted,  \* integers handed to from_canonical_u32 / from_canonical_u64
    peak,       \* largest u128 intermediate of generate_polymul_trace
    me          \* one call of mod_exp: its locals and position

vars == <<air, gadget, trace, pc, forged, accepted, overflowed, converted, peak, me>>

(***************************************************************************)
(* Machine arithmetic                                                      *)
(***************************************************************************)
\* u32 `+`: the release build wraps, the debug build panics on overflow
AddOverflowsU32(x, y) == Less(U32Max, Add(x, y))
WrappingAddU32(x, y) == Mod(Add(x, y), TwoPow32)
\* u64 `*`
MulOverflowsU64(x, y) == Less(U64Max, Mul(x, y))
WrappingMulU64(x, y) == Mod(Mul(x, y), TwoPow64)
\* `as u32` of a wider integer
AsU32(x) == Mod(x, TwoPow32)

(***************************************************************************)
(* mul.rs: mod_exp                                                         *)
(***************************************************************************)
\* mod_exp_entry without `base %= modulus`
mod_exp_entry_unreduced(base, exp, modulus) ==
    [base |-> base, exp |-> exp, result |-> One]

\* lines 54-55: the locals on entry to the loop
mod_exp_entry(base, exp, modulus) ==
    [base |-> Mod(base, modulus), exp |-> exp, result |-> One]

\* lines 58-65: one iteration of `while exp > 0`
mod_exp_iter(l, modulus) ==
    [result |-> IF Odd(l.exp) THEN Mod(WrappingMulU64(l.base, l.result), modulus)
                ELSE l.result,
     exp    |-> Half(l.exp),
     base   |-> Mod(WrappingMulU64(l.base, l.base), modulus)]

\* whether an iteration multiplies past 2^64 - 1
mod_exp_iter_overflows(l) ==
    \/ Odd(l.exp) /\ MulOverflowsU64(l.base, l.result)
    \/ MulOverflowsU64(l.base, l.base)

RECURSIVE mod_exp_loop(_, _)
mod_exp_loop(l, modulus) ==
    IF Len(l.exp) = 0 THEN l.result
    ELSE mod_exp_loop(mod_exp_iter(l, modulus), modulus)

mod_exp(base, exp, modulus) ==
    IF modulus = One THEN Zero
    ELSE mod_exp_loop(mod_exp_entry(base, exp, modulus), modulus)

(***************************************************************************)
(* RowMajorMatrix                                                          *)
(***************************************************************************)
Height(t) == Len(t.values) \div t.width
\* row r (from 0) of a table
Row(t, r) == SubSeq(t.values, r * t.width + 1, (r + 1) * t.width)
\* Zeros one element short
Zeros_short(n) == [k \in 1..(n - 1) |-> FieldZero]
Zeros(n) == [k \in 1..n |-> FieldZero]

(***************************************************************************)
(* add.rs                                                                  *)
(***************************************************************************)
PolyAddAir_width == 3 * N + 1

\* polyadd_out without `% modulus`
polyadd_out_unreduced(a, b, modulus) ==
    [i \in 1..N |-> WrappingAddU32(a[i], b[i])]

\* lines 101-105: (a[i] + b[i]) % modulus, the sum in u32
polyadd_out(a, b, modulus) ==
    [i \in 1..N |-> Mod(WrappingAddU32(a[i], b[i]), modulus)]

polyadd_overflows(a, b) == \E i \in 1..N : AddOverflowsU32(a[i], b[i])

\* lines 89-105: the u32 values pushed for row 0, in order
polyadd_row(a, b, modulus) == a \o b \o <<modulus>> \o polyadd_out(a, b, modulus)

\* generate_polyadd_trace pushing b before a
generate_polyadd_trace_swapped(a, b, modulus) ==
    LET row == polyadd_row(b, a, modulus)
    IN [values |-> [k \in 1..(3 * N + 1) |-> FromCanonicalU32(row[k])]
                       \o Zeros(3 * (3 * N + 1)),
        width  |-> 3 * N + 1]

\* lines 86-113
generate_polyadd_trace(a, b, modulus) ==
    LET row == polyadd_row(a, b, modulus)
    IN [values |-> [k \in 1..(3 * N + 1) |-> FromCanonicalU32(row[k])]
                       \o Zeros(3 * (3 * N + 1)),
        width  |-> 3 * N + 1]

\* PolyAddAir_eval asserting on every row, without when_first_row
PolyAddAir_eval_every_row(self, row) ==
    [k \in 1..(2 * N) |->
        IF k % 2 = 1
        THEN [first |-> FALSE, lhs |-> row[(k + 1) \div 2],
              rhs |-> FromCanonicalU32(self.a[(k + 1) \div 2])]
        ELSE [first |-> FALSE, lhs |-> row[(k \div 2) + N],
              rhs |-> FromCanonicalU32(self.b[k \div 2])]]
    \o <<[first |-> FALSE, lhs |-> row[2 * N + 1],
          rhs |-> FromCanonicalU32(self.modulus)]>>

\* lines 41-54: the registered constraints, for the window's local row
PolyAddAir_eval(self, row) ==
    [k \in 1..(2 * N) |->
        IF k % 2 = 1
        THEN [first |-> TRUE, lhs |-> row[(k + 1) \div 2],
              rhs |-> FromCanonicalU32(self.a[(k + 1) \div 2])]
        ELSE [first |-> TRUE, lhs |-> row[(k \div 2) + N],
              rhs |-> FromCanonicalU32(self.b[k \div 2])]]
    \o <<[first |-> TRUE, lhs |-> row[2 * N + 1],
          rhs |-> FromCanonicalU32(self.modulus)]>>

\* the integers PolyAddAir::eval converts into the field
PolyAddAir_eval_converted(self) ==
    {self.a[i] : i \in 1..N} \cup {self.b[i] : i \in 1..N} \cup {self.modulus}

(***************************************************************************)
(* mul.rs                                                                  *)
(***************************************************************************)
PolyMulAir_width == 4 * N - 1

\* lines 148-151 and 159-162: out[i] += a[a_idx] * b[i - a_idx] % modulus, in u128
RECURSIVE polymul_acc(_, _, _, _, _, _, _)
polymul_acc(a, b, modulus, i, a_idx, end, acc) ==
    IF a_idx >= end THEN acc
    ELSE polymul_acc(a, b, modulus, i, a_idx + 1, end,
                     Add(acc, Mod(Mul(a[a_idx + 1], b[i - a_idx + 1]), modulus)))

\* lines 140-163: out[i] before its final reduction (i from 0)
polymul_sum(a, b, modulus, i) ==
    IF i < N THEN polymul_acc(a, b, modulus, i, 0, i + 1, Zero)
    ELSE polymul_acc(a, b, modulus, i, i - N + 1, N, Zero)

\* polymul_out without `out[i] %= modulus`
polymul_out_unreduced(a, b, modulus) ==
    [k \in 1..(2 * N - 1) |-> AsU32(polymul_sum(a, b, modulus, k - 1))]

\* lines 165-166: out[i] %= modulus; out[i] as u32
polymul_out(a, b, modulus) ==
    [k \in 1..(2 * N - 1) |-> AsU32(Mod(polymul_sum(a, b, modulus, k - 1), modulus))]

\* the largest value a u128 holds while out is computed
polymul_peak(a, b, modulus) ==
    MaxOf({Mul(a[i], b[j]) : i \in 1..N, j \in 1..N}
          \cup {polymul_sum(a, b, modulus, i) : i \in 0..(2 * N - 2)})

polymul_row(a, b, modulus) == a \o b \o polymul_out(a, b, modulus)

\* lines 125-211
generate_polymul_trace(a, b, modulus) ==
    LET row == polymul_row(a, b, modulus)
    IN [values |-> [k \in 1..(4 * N - 1) |-> FromCanonicalU32(row[k])]
                       \o Zeros(3 * (4 * N - 1)),
        width  |-> 4 * N - 1]

\* lines 96-101 and 107-112: the inner loop over j.  Each iteration builds
\* acc + row[off + j] * power and drops it (`let _ = ...`): the accumulator
\* a_eval[i] / b_eval[i] / out_eval[i] keeps the zero it was pushed with.
RECURSIVE eval_loop(_, _, _, _, _, _, _)
eval_loop(acc, row, off, i, modulus, j, n) ==
    IF j >= n THEN acc
    ELSE LET power == FromCanonicalU64(mod_exp(ToNum(i), ToNum(j), modulus))
             dropped == FieldAdd(acc, FieldMul(row[off + j + 1], power))
         IN eval_loop(acc, row, off, i, modulus, j + 1, n)

\* lines 71-122: the registered constraints, for the window's local row
PolyMulAir_eval(self, row) ==
    [k \in 1..(2 * N) |->
        IF k % 2 = 1
        THEN [first |-> TRUE, lhs |-> row[(k + 1) \div 2],
              rhs |-> FromCanonicalU32(self.a[(k + 1) \div 2])]
        ELSE [first |-> TRUE, lhs |-> row[(k \div 2) + N],
              rhs |-> FromCanonicalU32(self.b[k \div 2])]]
    \o [k \in 1..(2 * N - 1) |->
        LET a_eval == eval_loop(FieldZero, row, 0, k - 1, self.modulus, 0, N)
            b_eval == eval_loop(FieldZero, row, N, k - 1, self.modulus, 0, N)
            out_eval == eval_loop(FieldZero, row, 2 * N, k - 1, self.modulus, 0, 2 * N - 1)
        IN [first |-> FALSE, lhs |-> FieldMul(a_eval, b_eval), rhs |-> out_eval]]

\* the integers PolyMulAir::eval converts into the field
PolyMulAir_eval_converted(self) ==
    {self.a[i] : i \in 1..N} \cup {self.b[i] : i \in 1..N}
    \cup {mod_exp(ToNum(i), ToNum(j), self.modulus) :
             i \in 0..(2 * N - 2), j \in 0..(2 * N - 2)}

(***************************************************************************)
(* Instances                                                               *)
(***************************************************************************)
SmallModuli == {ToNum(1), ToNum(2), ToNum(3)}
LargeModuli == {ToNum(P1), ToNum(P2), ToNum(P3), U32Max}

\* every polynomial over a small modulus; over a large one, the polynomials
\* whose coefficients are 1 except for m - 1 at no, one or every index
Polys(m) ==
    IF m \in SmallModuli THEN [1..N -> {ToNum(k) : k \in 0..(ToInt(m) - 1)}]
    ELSE {[i \in 1..N |-> IF i \in S THEN Sub(m, One) ELSE One] :
             S \in {{}, 1..N} \cup {{k} : k \in 1..N}}

\* the worked scenario: N = 3, a = [1,2,3], b = [4,5,6], modulus = 7
Scenario ==
    IF N = 3
    THEN {[a |-> <<ToNum(1), ToNum(2), ToNum(3)>>,
           b |-> <<ToNum(4), ToNum(5), ToNum(6)>>, modulus |-> ToNum(7)]}
    ELSE {}

Instances ==
    Scenario \cup
    UNION {{[a |-> a, b |-> b, modulus |-> m] : a \in Polys(m), b \in Polys(m)} :
              m \in SmallModuli \cup LargeModuli}

\* the instances a prover tampers with
ForgeModuli == {ToNum(11), ToNum(P1)}
ForgePolys == {[i \in 1..N |-> Zero], [i \in 1..N |-> ToNum(i)], [i \in 1..N |-> ToNum(N + i)]}
ForgeInstances ==
    {[a |-> a, b |-> b, modulus |-> m] : a \in ForgePolys, b \in ForgePolys, m \in ForgeModuli}
\* the field elements a tampered cell may hold
ForgeValues == {FieldZero, One, ToNum(5)}

\* the arguments of the modelled calls of mod_exp; the call sites pass a u32
\* modulus, the parameter is a u64
MeBases == {Zero, One, ToNum(2), ToNum(3), ToNum(P1 - 1), U32Max, U64Max}
MeExps == {ToNum(e) : e \in 0..MaxExp} \cup {ToNum(P1 - 1), U64Max}
MeModuli == {One, ToNum(2), ToNum(3), ToNum(7), ToNum(P1), U32Max, U64Max}

NoTrace == [values |-> <<>>, width |-> 1]
MeIdle == [pc |-> "idle", base0 |-> Zero, exp0 |-> Zero, modulus |-> One,
           l |-> [base |-> Zero, exp |-> Zero, result |-> Zero], ret |-> Zero, iters |-> 0]

(***************************************************************************)
(* Actions: one test run, test_poly_add / test_poly_mul                    *)
(***************************************************************************)
Init ==
    /\ air \in Instances
    /\ gadget \in {"add", "mul"}
    /\ trace = NoTrace
    /\ pc = "new"
    /\ forged = FALSE
    /\ accepted = FALSE
    /\ overflowed = FALSE
    /\ converted = {}
    /\ peak = Zero
    /\ me = MeIdle

\* add.rs:144: the table is generated.  A u32 sum past 2^32 - 1 panics in
\* a debug build and wraps in a release build.
GeneratePolyAddTrace ==
    /\ pc = "new"
    /\ gadget = "add"
    /\ overflowed' = polyadd_overflows(air.a, air.b)
    /\ \/ /\ polyadd_overflows(air.a, air.b)
          /\ pc' = "panic"
          /\ UNCHANGED <<trace, converted>>
       \/ /\ pc' = "traced"
          /\ trace' = generate_polyadd_trace(air.a, air.b, air.modulus)
          /\ converted' = LET row == polyadd_row(air.a, air.b, air.modulus)
                           IN {row[k] : k \in DOMAIN row}
    /\ UNCHANGED <<air, gadget, forged, accepted, peak, me>>

\* mul.rs:242
GeneratePolyMulTrace ==
    /\ pc = "new"
    /\ gadget = "mul"
    /\ pc' = "traced"
    /\ trace' = generate_polymul_trace(air.a, air.b, air.modulus)
    /\ converted' = LET row == polymul_row(air.a, air.b, air.modulus)
                    IN {row[k] : k \in DOMAIN row}
    /\ peak' = polymul_peak(air.a, air.b, air.modulus)
    /\ UNCHANGED <<air, gadget, forged, accepted, overflowed, me>>

\* the constraints eval registers, for row r of the table
Constraints(r) ==
    IF gadget = "add" THEN PolyAddAir_eval(air, Row(trace, r))
    ELSE PolyMulAir_eval(air, Row(trace, r))

\* a when_first_row constraint binds row 0 only
Satisfied(c, r) == (c.first /\ r # 0) \/ c.lhs = c.rhs

AllSatisfied ==
    \A r \in 0..(Height(trace) - 1) :
        LET cs == Constraints(r)
        IN \A k \in DOMAIN cs : Satisfied(cs[k], r)

\* add.rs:147-150, mul.rs:246-249: prove, then verify
ProveVerify ==
    /\ pc = "traced"
    /\ pc' = "verified"
    /\ accepted' = AllSatisfied
    /\ converted' = converted \cup
           (IF gadget = "add" THEN PolyAddAir_eval_converted(air)
            ELSE PolyMulAir_eval_converted(air))
    /\ UNCHANGED <<air, gadget, trace, forged, overflowed, peak, me>>

Next == GeneratePolyAddTrace \/ GeneratePolyMulTrace \/ ProveVerify

Spec == Init /\ [][Next]_vars

(***************************************************************************)
(* A run whose prover replaces one cell of the generated table             *)
(***************************************************************************)
InitForge ==
    /\ air \in ForgeInstances
    /\ gadget \in {"add", "mul"}
    /\ trace = NoTrace
    /\ pc = "new"
    /\ forged = FALSE
    /\ accepted = FALSE
    /\ overflowed = FALSE
    /\ converted = {}
    /\ peak = Zero
    /\ me = MeIdle

Forge ==
    /\ pc = "traced"
    /\ ~forged
    /\ \E k \in 1..Len(trace.values), v \in ForgeValues :
          /\ trace.values[k] # v
          /\ trace' = [trace EXCEPT !.values[k] = v]
    /\ forged' = TRUE
    /\ UNCHANGED <<air, gadget, pc, accepted, overflowed, converted, peak, me>>

NextForge == GeneratePolyAddTrace \/ GeneratePolyMulTrace \/ Forge \/ ProveVerify

SpecForge == InitForge /\ [][NextForge]_vars

(***************************************************************************)
(* One call of mod_exp, an iteration of its loop at a time                 *)
(***************************************************************************)
InitModExp ==
    /\ air = [a |-> <<>>, b |-> <<>>, modulus |-> One]
    /\ gadget = "mul"
    /\ trace = NoTrace
    /\ pc = "eval"
    /\ forged = FALSE
    /\ accepted = FALSE
    /\ overflowed = FALSE
    /\ converted = {}
    /\ peak = Zero
    /\ me \in {[MeIdle EXCEPT !.pc = "call", !.base0 = base, !.exp0 = exp, !.modulus = m] :
                   base \in MeBases, exp \in MeExps, m \in MeModuli}

\* mul.rs:51-55
ModExpEnter ==
    /\ me.pc = "call"
    /\ me' = IF me.modulus = One
             THEN [me EXCEPT !.pc = "done", !.ret = Zero]
             ELSE [me EXCEPT !.pc = "loop", !.l = mod_exp_entry(me.base0, me.exp0, me.modulus)]
    /\ UNCHANGED <<air, gadget, trace, pc, forged, accepted, overflowed, converted, peak>>

\* mul.rs:58-65.  A u64 product past 2^64 - 1 panics in a debug build and
\* wraps in a release build.
ModExpIter ==
    /\ me.pc = "loop"
    /\ Len(me.l.exp) > 0
    /\ overflowed' = (overflowed \/ mod_exp_iter_overflows(me.l))
    /\ \/ /\ mod_exp_iter_overflows(me.l)
          /\ me' = [me EXCEPT !.pc = "panic"]
       \/ me' = [me EXCEPT !.l = mod_exp_iter(me.l, me.modulus), !.iters = me.iters + 1]
    /\ UNCHANGED <<air, gadget, trace, pc, forged, accepted, converted, peak>>

\* mul.rs:58, 67: exp is 0, result is returned
ModExpReturn ==
    /\ me.pc = "loop"
    /\ Len(me.l.exp) = 0
    /\ me' = [me EXCEPT !.pc = "done", !.ret = me.l.result]
    /\ UNCHANGED <<air, gadget, trace, pc, forged, accepted, overflowed, converted, peak>>

NextModExp == ModExpEnter \/ ModExpIter \/ ModExpReturn

SpecModExp == InitModExp /\ [][NextModExp]_vars

(***************************************************************************)
(* Reference definitions for the properties                                *)
(***************************************************************************)
\* f[1] + ... + f[n] over the integers
RECURSIVE SumTo(_, _)
SumTo(f, n) == IF n = 0 THEN Zero ELSE Add(SumTo(f, n - 1), f[n])

\* base^e mod m by e multiplications, 0^0 = 1
RECURSIVE RefPow(_, _, _)
RefPow(base, e, m) ==
    IF e = 0 THEN Mod(One, m) ELSE Mod(Mul(base, RefPow(base, e - 1, m)), m)

\* (a[i] + b[i]) mod modulus, the sum over the integers
RefSum(a, b, modulus) == [i \in 1..N |-> Mod(Add(a[i], b[i]), modulus)]

\* coefficient k (from 0) of the product a * b over the integers
RefConvCoeff(a, b, k) ==
    SumTo([i \in 1..N |-> IF (k - (i - 1)) \in 0..(N - 1)
                          THEN Mul(a[i], b[k - i + 2]) ELSE Zero], N)
RefConv(a, b, modulus) ==
    [k \in 1..(2 * N - 1) |-> Mod(RefConvCoeff(a, b, k - 1), modulus)]

\* the field elements of a vector of canonical integers
Canon(v) == [k \in 1..Len(v) |-> FromCanonicalU32(v[k])]

\* sum_{j < n} c[j] * pw(x, j) in the native field, pw(x, j) = mod_exp(x, j, modulus)
RECURSIVE PointEvalTo(_, _, _, _)
PointEvalTo(c, x, modulus, n) ==
    IF n = 0 THEN FieldZero
    ELSE FieldAdd(PointEvalTo(c, x, modulus, n - 1),
                  FieldMul(c[n], FromCanonicalU64(mod_exp(ToNum(x), ToNum(n - 1), modulus))))
PointEval(c, x, modulus) == PointEvalTo(c, x, modulus, Len(c))

\* the columns of a row
ACols(row) == SubSeq(row, 1, N)
BCols(row) == SubSeq(row, N + 1, 2 * N)
AddOutCols(row) == SubSeq(row, 2 * N + 2, 3 * N + 1)
MulOutCols(row) == SubSeq(row, 2 * N + 1, 4 * N - 1)

Built == pc \in {"traced", "verified"}
Domain == 0..(2 * N - 2)

(***************************************************************************)
(* Properties                                                              *)
(***************************************************************************)
\* C1: PolyMulAir::eval enforces the pointwise product.  On a row 0 whose a
\* and b columns equal the instance's, the constraint registered for each
\* x in {0..2N-2} is A(x) * B(x) == Out(x) on the sums reconstructed from the
\* row, so a row whose out columns were replaced and that has
\* A(x) * B(x) # Out(x) at some x is not accepted.
C1_PointwiseProductEnforced ==
    (gadget = "mul" /\ pc = "verified" /\ forged)
        => LET row == Row(trace, 0)
               A(x) == PointEval(ACols(row), x, air.modulus)
               B(x) == PointEval(BCols(row), x, air.modulus)
               Out(x) == PointEval(MulOutCols(row), x, air.modulus)
               cs == PolyMulAir_eval(air, row)
           IN (ACols(row) = Canon(air.a) /\ BCols(row) = Canon(air.b))
                 => /\ \A x \in Domain :
                          /\ cs[2 * N + x + 1].lhs = FieldMul(A(x), B(x))
                          /\ cs[2 * N + x + 1].rhs = Out(x)
                    /\ (\E x \in Domain : FieldMul(A(x), B(x)) # Out(x)) => ~accepted

\* C2: completeness on honest traces.  With modulus = P1 and entries below
\* P1, the generated table has 4 rows and satisfies every constraint eval
\* registers on each of them, first-row constraints on row 0 only: prove
\* followed by verify accepts, for both gadgets.
C2_HonestAccepted ==
    (pc = "verified" /\ air.modulus = ToNum(P1) /\ ~forged)
        => /\ Height(trace) = 4
           /\ AllSatisfied
           /\ accepted

C2_Witness ==
    /\ pc = "verified"
    /\ gadget = "add"
    /\ accepted
    /\ air.modulus = ToNum(P1)
    /\ air.a[1] = ToNum(P1 - 1)
    /\ air.b[1] = One

\* C3: for every modulus >= 1 and entries below it, generate_polyadd_trace
\* returns a table whose row 0 is a ++ b ++ [modulus] ++ out with
\* out[i] = (a[i] + b[i]) mod modulus, the sum over the integers.
C3_AddTraceCorrect ==
    (gadget = "add" /\ pc # "new")
        => /\ pc # "panic"
           /\ Row(trace, 0) =
                  Canon(air.a \o air.b \o <<air.modulus>> \o RefSum(air.a, air.b, air.modulus))

\* C4: for every modulus >= 1 and entries below it, row 0 of
\* generate_polymul_trace is a ++ b ++ out with out[k] the k-th coefficient
\* of the product over the integers, reduced mod modulus once; no
\* intermediate value exceeds 2^128 - 1; and N = 3, a = [1,2,3], b = [4,5,6],
\* modulus = 7 gives out = [4,6,0,6,4].
C4_MulTraceCorrect ==
    (gadget = "mul" /\ Built)
        => /\ Row(trace, 0) = Canon(air.a \o air.b \o RefConv(air.a, air.b, air.modulus))
           /\ Less(peak, TwoPow128)
           /\ air \in Scenario
                 => MulOutCols(Row(trace, 0))
                        = <<ToNum(4), ToNum(6), ToNum(0), ToNum(6), ToNum(4)>>

C4_Witness ==
    /\ gadget = "mul"
    /\ pc = "traced"
    /\ air.modulus = ToNum(P1)
    /\ \A i \in 1..N : air.a[i] = ToNum(P1 - 1) /\ air.b[i] = ToNum(P1 - 1)
    /\ Less(TwoPow32, peak)

\* C5: on the output of generate_polymul_trace, for a modulus below the
\* field characteristic, A(x) * B(x) == Out(x) in the native field at every
\* x in {0..2N-2}.
C5_HonestPointIdentity ==
    (gadget = "mul" /\ Built /\ ~forged /\ Less(air.modulus, FieldOrder))
        => \A x \in Domain :
              FieldMul(PointEval(Canon(air.a), x, air.modulus),
                       PointEval(Canon(air.b), x, air.modulus))
                  = PointEval(MulOutCols(Row(trace, 0)), x, air.modulus)

C7_ModExp ==
    (me.pc # "idle" /\ Less(me.modulus, TwoPow32))
        => /\ me.pc # "panic"
           /\ ~overflowed
           /\ me.iters <= 64
           /\ (me.pc = "loop" /\ Len(me.l.exp) > 0) => Less(Half(me.l.exp), me.l.exp)
           /\ me.pc = "done"
                 => /\ Less(me.ret, me.modulus)
                    /\ me.modulus = One => me.ret = Zero
                    /\ (me.exp0 = Zero /\ me.modulus # One) => me.ret = One
                    /\ Leq(me.exp0, ToNum(MaxExp))
                          => me.ret = RefPow(me.base0, ToInt(me.exp0), me.modulus)
                    /\ (/\ me.modulus = ToNum(P1)
                        /\ me.exp0 = ToNum(P1 - 1)
                        /\ Mod(me.base0, me.modulus) # Zero) => me.ret = One
                    /\ (/\ me.modulus \in {ToNum(2), ToNum(3), ToNum(7)}
                        /\ Mod(me.base0, me.modulus) # Zero)
                          => me.ret = RefPow(me.base0,
                                             ToInt(Mod(me.exp0, Sub(me.modulus, One))),
                                             me.modulus)

C7_Witness ==
    /\ me.pc = "done"
    /\ me.modulus = U32Max
    /\ me.base0 = U64Max
    /\ me.exp0 = U64Max
    /\ me.iters = 64

\* C8: a generated table has 4 rows of width 3N+1 (addition) or 4N-1
\* (multiplication), the value of the gadget's width(), and rows 1, 2 and 3
\* hold the field's zero in every column.
C8_TableShape ==
    Built
        => /\ Len(trace.values) = 4 * trace.width
           /\ Height(trace) = 4
           /\ gadget = "add" => trace.width = 3 * N + 1 /\ trace.width = PolyAddAir_width
           /\ gadget = "mul" => trace.width = 4 * N - 1 /\ trace.width = PolyMulAir_width
           /\ \A r \in 1..3 : Row(trace, r) = [k \in 1..trace.width |-> FieldZero]

C8_Witness ==
    /\ pc = "traced"
    /\ gadget = "mul"
    /\ air.modulus = ToNum(P2)
    /\ Row(trace, 0)[4 * N - 1] # FieldZero

\* C9: generate_polyadd_trace never overflows its u32 sum and never panics,
\* for every modulus in [1, 2^32) and entries below it.
C9_AddTotal ==
    gadget = "add" => (pc # "panic" /\ ~overflowed)

\* C10: for modulus in {P1, P2, P3} every integer converted into the field,
\* by the trace builders or by eval, is below the characteristic 2^31 - 1.
C10_Canonical ==
    air.modulus \in {ToNum(P1), ToNum(P2), ToNum(P3)}
        => \A v \in converted : Less(v, FieldOrder)

C10_Witness ==
    /\ pc = "verified"
    /\ gadget = "mul"
    /\ air.modulus = ToNum(P3)
    /\ ToNum(P3 - 1) \in converted
    /\ ToNum(2 * N - 2) \in converted

====
